---- MODULE Spec2Model ----
(***************************************************************************)
(* ZeroLag: the penalty scorer (zerolag/scoring.py, score_system) and the  *)
(* recommendation engine (zerolag/core.py, _recommendations).              *)
(*                                                                         *)
(* Number representation.  Readings and cutoffs are carried in tenths of a *)
(* percent (ram_used = 835 is 83.5 %), recorded penalties in tenths of a   *)
(* point.  The penalties and the running score are Python floats (IEEE     *)
(* doubles); the model carries each double exactly, as a decimal number of *)
(* hundredths plus the distance of the double from that decimal, and       *)
(* rounds every operation to the nearest double as the hardware does.      *)
(* round() is Python's: to nearest, ties to even.                          *)
(***************************************************************************)
EXTENDS Integers, Sequences, FiniteSets

(***************************************************************************)
(* Python values that a snapshot field can hold.                           *)
(***************************************************************************)
Num(x) == [k |-> "num", v |-> x]
NoneVal == [k |-> "none", v |-> 0]
StrVal == [k |-> "str", v |-> 0]      \* a non-numeric string such as "n/a"

\* Python truthiness of a scalar: None and 0 are falsy, "n/a" is truthy
Truthy(val) == \/ val.k = "str"
               \/ val.k = "num" /\ val.v # 0

\* float(x or 0.0): the tenths value, or a ValueError for a non-numeric string
FloatOrZero(val) ==
    IF ~Truthy(val) THEN [exc |-> "", v |-> 0]
    ELSE IF val.k = "str" THEN [exc |-> "ValueError", v |-> 0]
    ELSE [exc |-> "", v |-> val.v]

Abs(x) == IF x < 0 THEN -x ELSE x
Min2(a, b) == IF a <= b THEN a ELSE b

\* round(n / d) for n >= 0, d > 0: nearest, ties to the even neighbour
RoundHalfEven(n, d) ==
    LET q == n \div d
        r == n % d
    IN  IF 2 * r > d \/ (2 * r = d /\ q % 2 = 1) THEN q + 1 ELSE q

(***************************************************************************)
(* Doubles.  The record [d |-> d, e |-> e] is the double whose value is    *)
(* d / 100 + e * 2^-ErrBits / 100: d is the decimal value the arithmetic   *)
(* gives in hundredths, e the rounding error the double carries.  The      *)
(* doubles of score_system are multiples of 2^-ErrBits (the smallest is    *)
(* the product 0.1 * 0.4), so e is an integer, and it stays below 2^31.    *)
(***************************************************************************)
ErrBits == 57

Double == [d : Int, e : Int]

\* 2^j mod m, for j < 60
Pow2Mod(j, m) ==
    LET m15 == (2^15) % m
        r == (2^(j % 15)) % m
        q == j \div 15
    IN  IF q = 0 THEN r
        ELSE IF q = 1 THEN (r * m15) % m
        ELSE IF q = 2 THEN (((r * m15) % m) * m15) % m
        ELSE (((((r * m15) % m) * m15) % m) * m15) % m

\* the binary exponent of the value d / 100 + e * 2^-ErrBits / 100, d >= 1:
\* the largest E <= E0 with 2^E <= value
RECURSIVE Exponent(_, _, _)
Exponent(E0, d, e) ==
    LET lhs == IF E0 >= 0 THEN d ELSE d * 2^(-E0)
        rhs == IF E0 >= 0 THEN 100 * 2^E0 ELSE 100
    IN  IF lhs > rhs \/ (lhs = rhs /\ e >= 0) THEN E0 ELSE Exponent(E0 - 1, d, e)

\* the error of the double nearest to the positive value
\* d / 100 + e * 2^-ErrBits / 100 (+ an amount below every unit, of sign tie),
\* worked out in three steps, each a function applied to the values the step
\* before it found.  Doubles of exponent E are the multiples of 2^-(52 - E):
\* j is 52 - E, G that step and r2 the distance of the value from the even
\* multiple below it, both in units of e.

\* the value lies r == r2 % G above a multiple of G
RoundStep[e \in Int, tie \in Int, G \in Int, r2 \in Int] ==
    LET r == r2 % G
        up == IF 2 * r # G THEN 2 * r > G
              ELSE IF tie # 0 THEN tie > 0
              ELSE r2 >= G
    IN  IF up THEN e + (G - r) ELSE e - r

RoundAt[d \in Int, e \in Int, tie \in Int, j \in Int, step \in Int] ==
    RoundStep[e, tie, 100 * step,
              (step * (((d % 200) * Pow2Mod(j, 200)) % 200) + e) % (200 * step)]

\* a multiple of 1/2 is a double as it stands
RoundPos[d \in Int, e \in Int, tie \in Int, E \in Int] ==
    IF d = 0 \/ (d % 50 = 0 /\ e = 0) \/ 52 - E > ErrBits THEN e
    ELSE RoundAt[d, e, tie, 52 - E, 2^(ErrBits - (52 - E))]

\* an exponent the value d / 100 does not exceed
TopExponent(d) ==
    IF d < 100 THEN -1 ELSE IF d < 800 THEN 2
    ELSE IF d < 6400 THEN 5 ELSE IF d < 25600 THEN 7 ELSE 10

\* round to nearest double, ties to the even mantissa; neg is -1 for a
\* negative value, which rounds as its magnitude does.  The arithmetic on
\* doubles is written as functions, each applied to the values of its operands
RoundSigned[d \in Int, e \in Int, tie \in Int, neg \in {-1, 1}] ==
    [d |-> d,
     e |-> neg * RoundPos[neg * d, neg * e, neg * tie,
                          IF d = 0 THEN 0 ELSE Exponent(TopExponent(neg * d), neg * d, neg * e)]]

RoundNearest[d \in Int, e \in Int, tie \in Int] ==
    RoundSigned[d, e, tie, IF d < 0 \/ (d = 0 /\ e < 0) THEN -1 ELSE 1]

\* the double nearest to t / 10: a float literal such as 0.6 or 25, a reading
Float(t) == RoundNearest[10 * t, 0, 0]

Sign(x) == IF x > 0 THEN 1 ELSE IF x < 0 THEN -1 ELSE 0

\* x + y, x - y and x * y on doubles; the factors of a product are doubles
\* of one-decimal numbers (a reading less a cutoff, a slope)
FAdd[x \in Double, y \in Double] == RoundNearest[x.d + y.d, x.e + y.e, 0]
FSub[x \in Double, y \in Double] == RoundNearest[x.d - y.d, x.e - y.e, 0]
FMul[x \in Double, y \in Double] ==
    LET tx == x.d \div 10
        ty == y.d \div 10
        ex == x.e \div 10
        ey == y.e \div 10
    IN  RoundNearest[tx * ty, tx * ey + ex * ty, Sign(ex) * Sign(ey)]

\* x < y on doubles
FLess(x, y) == x.d < y.d \/ (x.d = y.d /\ x.e < y.e)

FMin[x \in Double, y \in Double] == IF FLess(y, x) THEN y ELSE x
FMax[x \in Double, y \in Double] == IF FLess(x, y) THEN y ELSE x

\* round(x, ndigits) of a double to a multiple of unit hundredths: the double
\* lies on a decimal tie only when it is that decimal exactly
RoundDec[x \in Double, unit \in Int] ==
    IF 2 * (x.d % unit) = unit /\ x.e # 0
    THEN (x.d \div unit) + (IF x.e > 0 THEN 1 ELSE 0)
    ELSE RoundHalfEven(x.d, unit)

\* clamp without its lower bound
clamp_nolow(n, lo, hi) == FMin[hi, n]

clamp(n, lo, hi) == FMax[lo, FMin[hi, n]]

(***************************************************************************)
(* The snapshot.  A key of the snapshot dict is missing, null, or holds    *)
(* its mapping / list.  startup_items carries only its length, the one     *)
(* thing either function reads from it.                                    *)
(***************************************************************************)
MissingCpu == [k |-> "missing", cpu_pct |-> NoneVal]
NullCpu == [k |-> "none", cpu_pct |-> NoneVal]
CpuDict(val) == [k |-> "dict", cpu_pct |-> val]

MissingRam == [k |-> "missing", used_pct |-> NoneVal]
NullRam == [k |-> "none", used_pct |-> NoneVal]
RamDict(val) == [k |-> "dict", used_pct |-> val]

MissingDisks == [k |-> "missing", items |-> << >>]
NullDisks == [k |-> "none", items |-> << >>]
DiskList(items) == [k |-> "list", items |-> items]

MissingStartup == [k |-> "missing", n |-> 0]
NullStartup == [k |-> "none", n |-> 0]
StartupList(n) == [k |-> "list", n |-> n]

\* mount points of the disk entries, by position in the snapshot
Mountpoints == << "C:", "D:", "E:", "F:" >>

MaxDisks == 2

\* readings in tenths of a percent; none of them puts a penalty or a score on
\* a rounding tie that binary floating point resolves unlike the decimal value,
\* so that the decimal reference curve of the properties applies to them
RamVals == {0, 650, 731, 837, 900}
CpuVals == {0, 550, 601, 850, 1500}
DiskVals == {1000, 300, 200, 147, 100}
StartupVals == {0, 6, 7, 12, 45}

\* disk lists of length lo..hi whose free_pct values come from vals
DiskLists(vals, lo, hi) ==
    UNION { { DiskList([i \in 1..n |-> [mountpoint |-> Mountpoints[i], free_pct |-> f[i]]]) :
                f \in [1..n -> vals] } : n \in lo..hi }

(***************************************************************************)
(* The mode argument.  "None" stands for Python's None; the other values   *)
(* are the strings themselves.                                             *)
(***************************************************************************)
ModeArgs == {"general", "gaming", "GAMING", " gaming ", "None"}

\* mode or "general"
ModeOrGeneral(mode) == IF mode = "None" \/ mode = "" THEN "general" ELSE mode

\* str.lower() on the mode strings above
lower(str) == IF str = "GAMING" THEN "gaming" ELSE str

\* str.strip() on the mode strings above
strip(str) == IF str = " gaming " THEN "gaming" ELSE str

(***************************************************************************)
(* score_system                                                            *)
(***************************************************************************)
\* the RAM warn cutoffs of the two modes exchanged
ram_warn_swapped(gaming) == IF ~gaming THEN 600 ELSE 700

ram_warn(gaming) == IF ~gaming THEN 700 ELSE 600
ram_bad(gaming) == IF ~gaming THEN 850 ELSE 750

cpu_warn(gaming) == IF ~gaming THEN 600 ELSE 500
cpu_bad(gaming) == IF ~gaming THEN 850 ELSE 750

disk_warn(gaming) == IF ~gaming THEN 250 ELSE 300
disk_bad(gaming) == IF ~gaming THEN 150 ELSE 200

\* startup cutoffs are item counts
startup_warn(gaming) == IF ~gaming THEN 7 ELSE 6
startup_bad(gaming) == IF ~gaming THEN 12 ELSE 10

\* data.get("cpu") or {}, then .get("cpu_pct")
CpuPctField(data) == IF data.cpu.k = "dict" THEN data.cpu.cpu_pct ELSE NoneVal
\* data.get("ram") or {}, then .get("used_pct")
UsedPctField(data) == IF data.ram.k = "dict" THEN data.ram.used_pct ELSE NoneVal
\* data.get("disks") or []
DisksOrEmpty(data) == IF data.disks.k = "list" THEN data.disks.items ELSE << >>
\* len(data.get("startup_items") or [])
StartupLen(data) == IF data.startup_items.k = "list" THEN data.startup_items.n ELSE 0

\* [d.get("free_pct") for d in disks if d.get("free_pct") is not None]
FreePcts(disks) ==
    LET keep == SelectSeq(disks, LAMBDA d : d.free_pct.k # "none")
    IN  [i \in 1..Len(keep) |-> keep[i].free_pct]

RECURSIVE MinNum(_)
MinNum(vals) ==
    IF Len(vals) = 1 THEN vals[1].v
    ELSE Min2(vals[1].v, MinNum(Tail(vals)))

\* the first reported free_pct taken in place of the minimum
DiskFreePct_first(free_pcts) ==
    IF Len(free_pcts) = 0 THEN [exc |-> "", v |-> 1000]
    ELSE IF \E i, j \in 1..Len(free_pcts) : free_pcts[i].k # free_pcts[j].k
         THEN [exc |-> "TypeError", v |-> 0]
    ELSE IF free_pcts[1].k = "str" THEN [exc |-> "ValueError", v |-> 0]
    ELSE [exc |-> "", v |-> free_pcts[1].v]

\* float(min(free_pcts)) if free_pcts else 100.0
\* min() of numbers and strings mixed is a TypeError, float("n/a") a ValueError
DiskFreePct(free_pcts) ==
    IF Len(free_pcts) = 0 THEN [exc |-> "", v |-> 1000]
    ELSE IF \E i, j \in 1..Len(free_pcts) : free_pcts[i].k # free_pcts[j].k
         THEN [exc |-> "TypeError", v |-> 0]
    ELSE IF free_pcts[1].k = "str" THEN [exc |-> "ValueError", v |-> 0]
    ELSE [exc |-> "", v |-> MinNum(free_pcts)]

Raise(exc) == [status |-> "raise", exc |-> exc]

\* the nested penalize(): acc is the pair (score, breakdown) it closes over;
\* penalty and score are doubles, the recorded penalty is round(penalty, 1)
\* in tenths
penalize(acc, tag, penalty, reason) ==
    LET p == clamp(penalty, Float(0), Float(400))
    IN  [score |-> FSub[acc.score, p],
         breakdown |-> Append(acc.breakdown,
                              [tag |-> tag, penalty |-> RoundDec[p, 10], reason |-> reason])]

\* base + diff * slope in doubles; base and slope in tenths
Penalty(base, diff, slope) == FAdd[Float(base), FMul[diff, Float(slope)]]

\* f"... ({x:.0f}%)." : the template and the reading rounded to an integer
Reason(text, x10) == [text |-> text, n |-> RoundHalfEven(x10, 10)]

\* the RAM rule with the warn slope on the bad branch
ram_step_slope(acc, ram_used, gaming) ==
    IF ram_used >= ram_bad(gaming)
    THEN penalize(acc, "RAM", Penalty(250, FSub[Float(ram_used), Float(ram_bad(gaming))], 4),
                  Reason("High RAM pressure", ram_used))
    ELSE IF ram_used >= ram_warn(gaming)
    THEN penalize(acc, "RAM", Penalty(100, FSub[Float(ram_used), Float(ram_warn(gaming))], 4),
                  Reason("Moderate RAM pressure", ram_used))
    ELSE acc

ram_step(acc, ram_used, gaming) ==
    IF ram_used >= ram_bad(gaming)
    THEN penalize(acc, "RAM", Penalty(250, FSub[Float(ram_used), Float(ram_bad(gaming))], 6),
                  Reason("High RAM pressure", ram_used))
    ELSE IF ram_used >= ram_warn(gaming)
    THEN penalize(acc, "RAM", Penalty(100, FSub[Float(ram_used), Float(ram_warn(gaming))], 4),
                  Reason("Moderate RAM pressure", ram_used))
    ELSE acc

\* the disk rule with strict comparisons
disk_step_strict(acc, disk_free_pct, gaming) ==
    IF disk_free_pct < disk_bad(gaming)
    THEN penalize(acc, "Disk", Penalty(250, FSub[Float(disk_bad(gaming)), Float(disk_free_pct)], 8),
                  Reason("Very low free disk space", disk_free_pct))
    ELSE IF disk_free_pct < disk_warn(gaming)
    THEN penalize(acc, "Disk", Penalty(100, FSub[Float(disk_warn(gaming)), Float(disk_free_pct)], 5),
                  Reason("Low free disk space", disk_free_pct))
    ELSE acc

disk_step(acc, disk_free_pct, gaming) ==
    IF disk_free_pct <= disk_bad(gaming)
    THEN penalize(acc, "Disk", Penalty(250, FSub[Float(disk_bad(gaming)), Float(disk_free_pct)], 8),
                  Reason("Very low free disk space", disk_free_pct))
    ELSE IF disk_free_pct <= disk_warn(gaming)
    THEN penalize(acc, "Disk", Penalty(100, FSub[Float(disk_warn(gaming)), Float(disk_free_pct)], 5),
                  Reason("Low free disk space", disk_free_pct))
    ELSE acc

startup_step(acc, startup_n, gaming) ==
    IF startup_n >= startup_bad(gaming)
    THEN penalize(acc, "Startup", Penalty(180, Float(10 * (startup_n - startup_bad(gaming))), 7),
                  [text |-> "Too many startup items", n |-> startup_n])
    ELSE IF startup_n >= startup_warn(gaming)
    THEN penalize(acc, "Startup", Penalty(80, Float(10 * (startup_n - startup_warn(gaming))), 8),
                  [text |-> "Several startup items", n |-> startup_n])
    ELSE acc

\* the bad branch starting at 16 points
cpu_step_lowbase(acc, cpu_pct, gaming) ==
    IF cpu_pct >= cpu_bad(gaming)
    THEN penalize(acc, "CPU", Penalty(160, FSub[Float(cpu_pct), Float(cpu_bad(gaming))], 5),
                  Reason("High CPU load at scan time", cpu_pct))
    ELSE IF cpu_pct >= cpu_warn(gaming)
    THEN penalize(acc, "CPU", Penalty(70, FSub[Float(cpu_pct), Float(cpu_warn(gaming))], 4),
                  Reason("CPU moderately loaded", cpu_pct))
    ELSE acc

cpu_step(acc, cpu_pct, gaming) ==
    IF cpu_pct >= cpu_bad(gaming)
    THEN penalize(acc, "CPU", Penalty(180, FSub[Float(cpu_pct), Float(cpu_bad(gaming))], 5),
                  Reason("High CPU load at scan time", cpu_pct))
    ELSE IF cpu_pct >= cpu_warn(gaming)
    THEN penalize(acc, "CPU", Penalty(70, FSub[Float(cpu_pct), Float(cpu_warn(gaming))], 4),
                  Reason("CPU moderately loaded", cpu_pct))
    ELSE acc

\* the band cutoffs tested lowest first
Band_ascending(score) ==
    IF ~FLess(score, Float(550)) THEN "Fair"
    ELSE IF ~FLess(score, Float(700)) THEN "Good"
    ELSE IF ~FLess(score, Float(850)) THEN "Excellent"
    ELSE "Poor"

\* band is taken from the clamped score before it is rounded
Band(score) ==
    IF ~FLess(score, Float(850)) THEN "Excellent"
    ELSE IF ~FLess(score, Float(700)) THEN "Good"
    ELSE IF ~FLess(score, Float(550)) THEN "Fair"
    ELSE "Poor"

score_system(data, mode_arg) ==
    LET mode == strip(lower(ModeOrGeneral(mode_arg)))
        gaming == mode = "gaming"
        cpu_pct == FloatOrZero(CpuPctField(data))
        ram_used == FloatOrZero(UsedPctField(data))
        startup_n == StartupLen(data)
        disk_free_pct == DiskFreePct(FreePcts(DisksOrEmpty(data)))
    IN  IF cpu_pct.exc # "" THEN Raise(cpu_pct.exc)
        ELSE IF ram_used.exc # "" THEN Raise(ram_used.exc)
        ELSE IF disk_free_pct.exc # "" THEN Raise(disk_free_pct.exc)
        ELSE
        \* the four rules in turn, each on the (score, breakdown) the one
        \* before it left, then the clamp of the score
        CHOOSE result \in
            { [status |-> "ok",
               mode |-> mode,
               score |-> RoundDec[a5.score, 100],
               band |-> Band(a5.score),
               inputs |-> [cpu_pct |-> cpu_pct.v,
                           ram_used_pct |-> ram_used.v,
                           disk_free_pct_min |-> disk_free_pct.v,
                           startup_items |-> startup_n],
               breakdown |-> a5.breakdown] :
              a5 \in { [a4 EXCEPT !.score = clamp(a4.score, Float(0), Float(1000))] :
              a4 \in { cpu_step(a3, cpu_pct.v, gaming) :
              a3 \in { startup_step(a2, startup_n, gaming) :
              a2 \in { disk_step(a1, disk_free_pct.v, gaming) :
              a1 \in { ram_step(a0, ram_used.v, gaming) :
              a0 \in { [score |-> Float(1000), breakdown |-> << >>] } } } } } } } :
          TRUE

(***************************************************************************)
(* _recommendations                                                        *)
(*                                                                         *)
(* A recommendation is its priority and its title; the title of a disk     *)
(* recommendation is the template plus the mount point (mp).  The why and  *)
(* action texts are constants fixed by the title and are left out.         *)
(***************************************************************************)
Rec(priority, title) == [priority |-> priority, title |-> title, mp |-> ""]
DiskRec(priority, title, mp) == [priority |-> priority, title |-> title, mp |-> mp]

\* x < cutoff / x >= cutoff on a value that is not None: a string operand is
\* a TypeError
IsStr(val) == val.k = "str"

\* the loop over data.get("disks", []): one entry per disk below a cutoff
RECURSIVE disk_recs(_, _)
disk_recs(disks, gaming) ==
    IF Len(disks) = 0 THEN << >>
    ELSE LET d == disks[1]
             free_pct == d.free_pct
             warn == disk_warn(gaming)
             bad == disk_bad(gaming)
             rest == disk_recs(Tail(disks), gaming)
         IN  IF free_pct.k # "none" /\ free_pct.v < bad
             THEN << DiskRec("High", "Low free space on", d.mountpoint) >> \o rest
             ELSE IF free_pct.k # "none" /\ free_pct.v < warn
             THEN << DiskRec("Medium", "Free space getting tight on", d.mountpoint) >> \o rest
             ELSE rest

ram_recs(used_pct, gaming) ==
    IF used_pct.k # "none" /\ used_pct.v >= ram_bad(gaming)
    THEN << Rec("High", "High RAM usage") >>
    ELSE IF used_pct.k # "none" /\ used_pct.v >= ram_warn(gaming)
    THEN << Rec("Medium", "RAM pressure") >>
    ELSE << >>

startup_recs(n, gaming) ==
    IF n >= startup_bad(gaming) THEN << Rec("High", "Many startup items") >>
    ELSE IF n >= startup_warn(gaming) THEN << Rec("Medium", "Several startup items") >>
    ELSE << >>

cpu_recs(cpu_pct, gaming) ==
    IF cpu_pct.k # "none" /\ cpu_pct.v >= cpu_bad(gaming)
    THEN << Rec("High", "High CPU usage at scan time") >>
    ELSE IF cpu_pct.k # "none" /\ cpu_pct.v >= cpu_warn(gaming)
    THEN << Rec("Low", "CPU moderately loaded") >>
    ELSE << >>

\* the gaming checklist never appended
gaming_tips_none(gaming) == << >>

gaming_tips(gaming) ==
    IF gaming THEN << Rec("Low", "Gaming mode checklist") >> ELSE << >>

safe_defaults ==
    << Rec("Low", "Keep drivers and Windows updated"), Rec("Low", "Storage hygiene") >>

order == [p \in {"High", "Medium", "Low"} |->
            IF p = "High" THEN 0 ELSE IF p = "Medium" THEN 1 ELSE 2]

\* an unstable insertion: an element goes in front of the elements of equal key
InsertByPriority_unstable(sorted, r) ==
    SelectSeq(sorted, LAMBDA x : order[x.priority] < order[r.priority])
    \o << r >>
    \o SelectSeq(sorted, LAMBDA x : order[x.priority] >= order[r.priority])

\* list.sort(key=...) is stable: an element goes behind the elements already
\* placed whose key is less than or equal to its own
InsertByPriority(sorted, r) ==
    SelectSeq(sorted, LAMBDA x : order[x.priority] <= order[r.priority])
    \o << r >>
    \o SelectSeq(sorted, LAMBDA x : order[x.priority] > order[r.priority])

RECURSIVE sort(_)
sort(recs) ==
    IF Len(recs) = 0 THEN << >>
    ELSE InsertByPriority(sort(SubSeq(recs, 1, Len(recs) - 1)), recs[Len(recs)])

_recommendations(data, mode_arg) ==
    LET gaming == lower(ModeOrGeneral(mode_arg)) = "gaming"
        disks == data.disks.items
        used_pct == UsedPctField(data)
        cpu_pct == CpuPctField(data)
    IN  IF data.disks.k = "none" THEN Raise("TypeError")
        ELSE IF \E i \in 1..Len(disks) : IsStr(disks[i].free_pct) THEN Raise("TypeError")
        ELSE IF IsStr(used_pct) THEN Raise("TypeError")
        ELSE IF data.startup_items.k = "none" THEN Raise("TypeError")
        ELSE IF IsStr(cpu_pct) THEN Raise("TypeError")
        ELSE [status |-> "ok",
              recs |-> sort(disk_recs(disks, gaming)
                            \o ram_recs(used_pct, gaming)
                            \o startup_recs(data.startup_items.n, gaming)
                            \o cpu_recs(cpu_pct, gaming)
                            \o gaming_tips(gaming)
                            \o safe_defaults)]

(***************************************************************************)
(* The snapshots the functions are applied to:                             *)
(*  - every combination of the numeric readings with at most one disk,     *)
(*  - two or more disks with a few readings of the other categories,       *)
(*  - snapshots with missing, null and non-numeric fields.                 *)
(***************************************************************************)
SingleDiskSnapshots ==
    [cpu : {CpuDict(Num(x)) : x \in CpuVals},
     ram : {RamDict(Num(x)) : x \in RamVals},
     disks : DiskLists({Num(x) : x \in DiskVals}, 0, 1),
     startup_items : {StartupList(n) : n \in StartupVals}]

MultiDiskSnapshots ==
    [cpu : {CpuDict(Num(0)), CpuDict(Num(601))},
     ram : {RamDict(Num(0)), RamDict(Num(900))},
     disks : DiskLists({Num(x) : x \in DiskVals}, 2, MaxDisks),
     startup_items : {StartupList(0), StartupList(7)}]

DegradedSnapshots ==
    [cpu : {MissingCpu, NullCpu, CpuDict(NoneVal), CpuDict(StrVal)},
     ram : {MissingRam, NullRam, RamDict(StrVal), RamDict(Num(900))},
     disks : {MissingDisks, NullDisks} \cup DiskLists({NoneVal, StrVal, Num(100)}, 0, MaxDisks),
     startup_items : {MissingStartup, NullStartup, StartupList(12)}]

Snapshots == SingleDiskSnapshots \cup MultiDiskSnapshots \cup DegradedSnapshots

Modes == {"general", "gaming"}

NotRun == [status |-> "notrun"]

(***************************************************************************)
(* State: a snapshot and, per mode, the values the two functions have      *)
(* returned for it (data["score"], data["recommendations"] in run_scan).   *)
(***************************************************************************)
VARIABLES data, score, recommendations

(***************************************************************************)
(* State of the desktop front end (ZeroLagApp):                            *)
(*   mode_var    self.mode, the StringVar of the mode menu                 *)
(*   status      self.status                                               *)
(*   btn_scan    state of the Run Scan button                              *)
(*   btn_export  state of the Export Report button                         *)
(*   self_data   self.data                                                 *)
(*   shown       the scan shown in the score label and the summary text    *)
(*   threads     the worker threads started by run_scan_async: where each  *)
(*               is in task(), the mode it was given, its local data       *)
(*   callbacks   the callbacks queued with self.after(0, ...), oldest      *)
(*               first                                                     *)
(*   dialogs     the open modal dialogs, the innermost last                *)
(***************************************************************************)
VARIABLES mode_var, status, btn_scan, btn_export, self_data, shown, threads, callbacks,
          dialogs

ui_vars ==
    << mode_var, status, btn_scan, btn_export, self_data, shown, threads, callbacks, dialogs >>

vars == << data, score, recommendations, ui_vars >>

\* number of worker threads the model can hold at once
MaxThreads == 2

\* self.data = None
NoData == [status |-> "none"]

IdleThread == [pc |-> "idle", mode |-> "", data |-> NoData]

\* ZeroLagApp.__init__ and _build
UIInit ==
    /\ mode_var = "gaming"
    /\ status = "Ready."
    /\ btn_scan = "normal"
    /\ btn_export = "disabled"
    /\ self_data = NoData
    /\ shown = NoData
    /\ threads = [t \in 1..MaxThreads |-> IdleThread]
    /\ callbacks = << >>
    /\ dialogs = << >>

Init ==
    /\ data \in Snapshots
    /\ score = [m \in Modes |-> NotRun]
    /\ recommendations = [m \in Modes |-> NotRun]
    /\ UIInit

\* score_system(data, mode=m); the result is kept under the mode it reports
ScoreSystem(m) ==
    /\ score' = [score EXCEPT ![strip(lower(ModeOrGeneral(m)))] = score_system(data, m)]
    /\ UNCHANGED << data, recommendations, ui_vars >>

\* _recommendations(data, mode=m); the result is kept under the mode whose
\* cutoffs the call applied
Recommendations(m) ==
    /\ recommendations' =
         [recommendations EXCEPT
            ![IF lower(ModeOrGeneral(m)) = "gaming" THEN "gaming" ELSE "general"] =
                _recommendations(data, m)]
    /\ UNCHANGED << data, score, ui_vars >>

Next ==
    \/ \E m \in ModeArgs : ScoreSystem(m)
    \/ \E m \in ModeArgs : Recommendations(m)

Spec == Init /\ [][Next]_vars

(***************************************************************************)
(* A second family of snapshots: one category swept in steps of a tenth of *)
(* a percent (one item for the startup list) through its warn and bad      *)
(* cutoffs of both modes, every other category healthy, together with the  *)
(* single-disk snapshots above.                                            *)
(***************************************************************************)
\* half-width of a sweep around a cutoff, in tenths of a percent
SweepWidth == 10

Around(cutoffs) == UNION { (c - SweepWidth)..(c + SweepWidth) : c \in cutoffs }

RamSweep == Around({ram_warn(g) : g \in BOOLEAN} \cup {ram_bad(g) : g \in BOOLEAN})
CpuSweep == Around({cpu_warn(g) : g \in BOOLEAN} \cup {cpu_bad(g) : g \in BOOLEAN})
DiskSweep == Around({disk_warn(g) : g \in BOOLEAN} \cup {disk_bad(g) : g \in BOOLEAN})
StartupSweep == 0..14

HealthySnapshot ==
    [cpu |-> CpuDict(Num(0)), ram |-> RamDict(Num(0)),
     disks |-> DiskList(<< [mountpoint |-> Mountpoints[1], free_pct |-> Num(1000)] >>),
     startup_items |-> StartupList(0)]

SweepSnapshots ==
    { [HealthySnapshot EXCEPT !.ram = RamDict(Num(x))] : x \in RamSweep }
    \cup { [HealthySnapshot EXCEPT !.cpu = CpuDict(Num(x))] : x \in CpuSweep }
    \cup { [HealthySnapshot EXCEPT !.disks.items[1].free_pct = Num(x)] : x \in DiskSweep }
    \cup { [HealthySnapshot EXCEPT !.startup_items = StartupList(n)] : n \in StartupSweep }

InitMono ==
    /\ data \in SweepSnapshots \cup SingleDiskSnapshots
    /\ score = [m \in Modes |-> NotRun]
    /\ recommendations = [m \in Modes |-> NotRun]
    /\ UIInit

SpecMono == InitMono /\ [][Next]_vars

(***************************************************************************)
(* The desktop front end.  Button commands, queued callbacks and dialog    *)
(* answers run on the Tk main loop, one at a time; the steps of task() run *)
(* on a worker thread and interleave with them.  A disabled button does    *)
(* not invoke its command, and while a modal dialog (file dialog, message  *)
(* box) is open the main window takes no clicks, but queued callbacks      *)
(* still run.                                                              *)
(***************************************************************************)
\* the snapshots the collector hands to run_scan in this specification
ScanSnapshots == { HealthySnapshot, [HealthySnapshot EXCEPT !.ram = RamDict(Num(900))] }

\* run_scan(mode) on a collected snapshot
run_scan(snapshot, mode_arg) ==
    LET mode == strip(lower(ModeOrGeneral(mode_arg)))
        s == score_system(snapshot, mode)
        r == _recommendations(snapshot, mode)
    IN  IF s.status # "ok" THEN s
        ELSE IF r.status # "ok" THEN r
        ELSE [status |-> "ok", mode |-> mode, snapshot |-> snapshot,
              score |-> s, recommendations |-> r.recs]

\* the main window takes clicks
MainWindowActive == dialogs = << >>

\* run_scan_async with the Export button left as it is
ClickRunScan_keeps_export ==
    /\ MainWindowActive
    /\ btn_scan = "normal"
    /\ \E t \in 1..MaxThreads :
          /\ threads[t].pc = "idle"
          /\ threads' = [threads EXCEPT ![t] = [pc |-> "run_scan", mode |-> mode_var,
                                                data |-> NoData]]
    /\ btn_scan' = "disabled"
    /\ status' = "Scanning..."
    /\ shown' = NoData
    /\ UNCHANGED << btn_export, mode_var, self_data, callbacks, dialogs, data, score,
                    recommendations >>

\* a click on Run Scan: run_scan_async
ClickRunScan ==
    /\ MainWindowActive
    /\ btn_scan = "normal"
    /\ \E t \in 1..MaxThreads :
          /\ threads[t].pc = "idle"
          /\ threads' = [threads EXCEPT ![t] = [pc |-> "run_scan", mode |-> mode_var,
                                                data |-> NoData]]
    /\ btn_scan' = "disabled"
    /\ btn_export' = "disabled"
    /\ status' = "Scanning..."
    /\ shown' = NoData
    /\ UNCHANGED << mode_var, self_data, callbacks, dialogs, data, score, recommendations >>

\* the mode menu
SetMode(m) ==
    /\ MainWindowActive
    /\ m # mode_var
    /\ mode_var' = m
    /\ UNCHANGED << status, btn_scan, btn_export, self_data, threads, callbacks, dialogs,
                    shown, data, score, recommendations >>

\* task(): data = run_scan(mode=mode) returns or raises
TaskRunScan(t) ==
    /\ threads[t].pc = "run_scan"
    /\ \E snapshot \in ScanSnapshots :
          LET r == run_scan(snapshot, threads[t].mode)
          IN  threads' = [threads EXCEPT ![t] =
                            IF r.status = "ok"
                            THEN [@ EXCEPT !.pc = "assign", !.data = r]
                            ELSE [@ EXCEPT !.pc = "except"]]
    /\ UNCHANGED << mode_var, status, btn_scan, btn_export, self_data, callbacks, dialogs,
                    shown, data, score, recommendations >>

\* task(): a collector called by run_scan raises
TaskRunScanRaises(t) ==
    /\ threads[t].pc = "run_scan"
    /\ threads' = [threads EXCEPT ![t].pc = "except"]
    /\ UNCHANGED << mode_var, status, btn_scan, btn_export, self_data, callbacks, dialogs,
                    shown, data, score, recommendations >>

\* task(): self.data = data
TaskAssign(t) ==
    /\ threads[t].pc = "assign"
    /\ self_data' = threads[t].data
    /\ threads' = [threads EXCEPT ![t].pc = "after"]
    /\ UNCHANGED << mode_var, status, btn_scan, btn_export, callbacks, dialogs,
                    shown, data, score, recommendations >>

\* task(): self.after(0, lambda: self.show_results(data)); the thread ends
TaskAfter(t) ==
    /\ threads[t].pc = "after"
    /\ callbacks' = Append(callbacks, [kind |-> "show_results", thread |-> t,
                                        data |-> threads[t].data, e |-> ""])
    /\ threads' = [threads EXCEPT ![t] = IdleThread]
    /\ UNCHANGED << mode_var, status, btn_scan, btn_export, self_data, dialogs,
                    shown, data, score, recommendations >>

\* task(): except Exception as e: self.after(0, lambda: self.on_error(e))
TaskExcept(t) ==
    /\ threads[t].pc = "except"
    /\ callbacks' = Append(callbacks, [kind |-> "on_error", thread |-> t,
                                        data |-> NoData, e |-> "bound"])
    /\ threads' = [threads EXCEPT ![t].pc = "unbind"]
    /\ UNCHANGED << mode_var, status, btn_scan, btn_export, self_data, dialogs,
                    shown, data, score, recommendations >>

\* task(): leaving the except block unbinds e, the variable the queued lambda
\* closes over; the thread ends
TaskUnbind(t) ==
    /\ threads[t].pc = "unbind"
    /\ callbacks' = [i \in 1..Len(callbacks) |->
                        IF callbacks[i].kind = "on_error" /\ callbacks[i].thread = t
                        THEN [callbacks[i] EXCEPT !.e = "unbound"]
                        ELSE callbacks[i]]
    /\ threads' = [threads EXCEPT ![t] = IdleThread]
    /\ UNCHANGED << mode_var, status, btn_scan, btn_export, self_data, dialogs,
                    shown, data, score, recommendations >>

\* the main loop runs the oldest queued callback: show_results(data)
ShowResults ==
    /\ callbacks # << >>
    /\ Head(callbacks).kind = "show_results"
    /\ callbacks' = Tail(callbacks)
    /\ status' = "Scan complete."
    /\ btn_scan' = "normal"
    /\ btn_export' = "normal"
    /\ shown' = Head(callbacks).data
    /\ UNCHANGED << mode_var, self_data, threads, dialogs, data, score, recommendations >>

\* the main loop runs the oldest queued callback: on_error(e), e still bound
OnError ==
    /\ callbacks # << >>
    /\ Head(callbacks).kind = "on_error"
    /\ Head(callbacks).e = "bound"
    /\ callbacks' = Tail(callbacks)
    /\ status' = "Error."
    /\ btn_scan' = "normal"
    /\ dialogs' = Append(dialogs, "showerror_scan")
    /\ UNCHANGED << mode_var, btn_export, self_data, threads, shown, data, score, recommendations >>

\* the main loop runs the oldest queued callback: the lambda reads e after the
\* worker has left the except block, a NameError, and on_error is not called
OnErrorUnbound ==
    /\ callbacks # << >>
    /\ Head(callbacks).kind = "on_error"
    /\ Head(callbacks).e = "unbound"
    /\ callbacks' = Tail(callbacks)
    /\ UNCHANGED << mode_var, status, btn_scan, btn_export, self_data, threads, dialogs,
                    shown, data, score, recommendations >>

\* a click on Export Report: export_report up to the folder dialog
ClickExport ==
    /\ MainWindowActive
    /\ btn_export = "normal"
    /\ dialogs' = Append(dialogs, IF self_data = NoData THEN "showinfo_run_scan_first"
                                   ELSE "askdirectory")
    /\ UNCHANGED << mode_var, status, btn_scan, btn_export, self_data, threads, callbacks,
                    shown, data, score, recommendations >>

\* export_report after the folder dialog: no folder chosen, or the three
\* files written from self.data, or the writing fails
AskDirectoryReturns(outcome) ==
    /\ dialogs # << >>
    /\ dialogs[Len(dialogs)] = "askdirectory"
    /\ dialogs' = IF outcome = "cancel" THEN SubSeq(dialogs, 1, Len(dialogs) - 1)
                  ELSE [dialogs EXCEPT ![Len(dialogs)] =
                          IF outcome = "saved" THEN "showinfo_exported" ELSE "showerror_export"]
    /\ UNCHANGED << mode_var, status, btn_scan, btn_export, self_data, threads, callbacks,
                    shown, data, score, recommendations >>

\* the user closes the innermost message box
DismissMessage ==
    /\ dialogs # << >>
    /\ dialogs[Len(dialogs)] # "askdirectory"
    /\ dialogs' = SubSeq(dialogs, 1, Len(dialogs) - 1)
    /\ UNCHANGED << mode_var, status, btn_scan, btn_export, self_data, threads, callbacks,
                    shown, data, score, recommendations >>

InitUI ==
    /\ data = HealthySnapshot
    /\ score = [m \in Modes |-> NotRun]
    /\ recommendations = [m \in Modes |-> NotRun]
    /\ UIInit

NextUI ==
    \/ ClickRunScan
    \/ \E m \in Modes : SetMode(m)
    \/ \E t \in 1..MaxThreads : TaskRunScan(t)
    \/ \E t \in 1..MaxThreads : TaskRunScanRaises(t)
    \/ \E t \in 1..MaxThreads : TaskAssign(t)
    \/ \E t \in 1..MaxThreads : TaskAfter(t)
    \/ \E t \in 1..MaxThreads : TaskExcept(t)
    \/ \E t \in 1..MaxThreads : TaskUnbind(t)
    \/ ShowResults
    \/ OnError
    \/ OnErrorUnbound
    \/ ClickExport
    \/ \E outcome \in {"cancel", "saved", "failed"} : AskDirectoryReturns(outcome)
    \/ DismissMessage

SpecUI == InitUI /\ [][NextUI]_vars

(***************************************************************************)
(* Properties                                                              *)
(***************************************************************************)
Ok(r) == r.status = "ok"

Bounded(n, lo, hi) == IF n < lo THEN lo ELSE IF n > hi THEN hi ELSE n

\* the score-to-band table, on the integer score
TableBand(s) ==
    IF s >= 85 THEN "Excellent"
    ELSE IF s >= 70 THEN "Good"
    ELSE IF s >= 55 THEN "Fair"
    ELSE "Poor"

\* sum of the penalties listed in a breakdown, in tenths
RECURSIVE SumPenalty(_)
SumPenalty(breakdown) ==
    IF Len(breakdown) = 0 THEN 0
    ELSE breakdown[1].penalty + SumPenalty(Tail(breakdown))

\* C1: the band of every returned Score Result is the band the score-to-band
\* table gives for the returned integer score (Excellent iff score >= 85,
\* Good iff 70 <= score < 85, Fair iff 55 <= score < 70, Poor iff score < 55).
C1_BandMatchesScore ==
    \A m \in Modes : Ok(score[m]) => score[m].band = TableBand(score[m].score)

\* C2: every returned score is an integer in 0..100, also when the clamped
\* penalties sum to more than 100 and when no penalty fires.
C2_ScoreInRange ==
    \A m \in Modes : Ok(score[m]) => score[m].score \in 0..100

\* a result whose listed penalties exceed 100 points and whose score is 0
C2_Witness ==
    \E m \in Modes : /\ Ok(score[m])
                     /\ SumPenalty(score[m].breakdown) > 1000
                     /\ score[m].score = 0

\* the integers nearest to n / d (both neighbours when n / d lies half-way)
NearestIntegers(n, d) ==
    { q \in {n \div d, n \div d + 1} : 2 * Abs(n - q * d) <= d }

\* C3: the returned score is clamp(100 - sum of the penalties listed in the
\* returned breakdown, 0, 100) rounded to the nearest integer.
C3_BreakdownAddsUp ==
    \A m \in Modes :
        Ok(score[m]) =>
            score[m].score \in
                NearestIntegers(Bounded(1000 - SumPenalty(score[m].breakdown), 0, 1000), 10)

\* C4: for one snapshot the gaming score is never above the general score.
C4_GamingNotHigher ==
    (Ok(score["general"]) /\ Ok(score["gaming"]))
        => score["gaming"].score <= score["general"].score

\* both modes scored, a threshold triggered in general mode, gaming strictly lower
C4_Witness ==
    /\ Ok(score["general"]) /\ Ok(score["gaming"])
    /\ Len(score["general"].breakdown) > 0
    /\ score["gaming"].score < score["general"].score

\* a snapshot field that holds a number
Usable(val) == val.k = "num"

\* the snapshot with every unusable reading replaced by a healthy one:
\* cpu_pct = 0, used_pct = 0, free_pct = 100, no startup items, no disks
HealthyData(d) ==
    [cpu |-> CpuDict(IF d.cpu.k = "dict" /\ Usable(d.cpu.cpu_pct) THEN d.cpu.cpu_pct ELSE Num(0)),
     ram |-> RamDict(IF d.ram.k = "dict" /\ Usable(d.ram.used_pct) THEN d.ram.used_pct ELSE Num(0)),
     disks |-> DiskList([i \in 1..Len(d.disks.items) |->
                           [mountpoint |-> d.disks.items[i].mountpoint,
                            free_pct |-> IF Usable(d.disks.items[i].free_pct)
                                         THEN d.disks.items[i].free_pct ELSE Num(1000)]]),
     startup_items |-> StartupList(IF d.startup_items.k = "list" THEN d.startup_items.n ELSE 0)]

\* C5: score_system never fails; with an absent, null or non-numeric reading
\* it returns the Score Result of the same snapshot with that reading healthy
\* (no penalty entry for the unusable category, the others scored unchanged).
C5_ScorerFailSoft ==
    \A m \in Modes :
        score[m] # NotRun =>
            /\ Ok(score[m])
            /\ score[m] = score_system(HealthyData(data), m)

\* C6: wherever score_system returns a result, _recommendations returns a
\* list too, the one of the same snapshot with the unusable readings healthy.
C6_RecommendFailSoft ==
    \A m \in Modes :
        (Ok(score[m]) /\ recommendations[m] # NotRun) =>
            /\ Ok(recommendations[m])
            /\ recommendations[m] = _recommendations(HealthyData(data), m)

(***************************************************************************)
(* The threshold table and the penalty constants of the reference curve,   *)
(* in the units of the model (tenths; startup counts times ten).           *)
(***************************************************************************)
Categories == << "RAM", "Disk", "Startup", "CPU" >>

Cutoffs ==
    [general |-> [RAM |-> [warn |-> 700, bad |-> 850],
                  Disk |-> [warn |-> 250, bad |-> 150],
                  Startup |-> [warn |-> 70, bad |-> 120],
                  CPU |-> [warn |-> 600, bad |-> 850]],
     gaming |-> [RAM |-> [warn |-> 600, bad |-> 750],
                 Disk |-> [warn |-> 300, bad |-> 200],
                 Startup |-> [warn |-> 60, bad |-> 100],
                 CPU |-> [warn |-> 500, bad |-> 750]]]

\* base in hundredths of a point, slope in tenths of a point per percent
Curve ==
    [RAM |-> [base_bad |-> 2500, slope_bad |-> 6, base_warn |-> 1000, slope_warn |-> 4],
     Disk |-> [base_bad |-> 2500, slope_bad |-> 8, base_warn |-> 1000, slope_warn |-> 5],
     Startup |-> [base_bad |-> 1800, slope_bad |-> 7, base_warn |-> 800, slope_warn |-> 8],
     CPU |-> [base_bad |-> 1800, slope_bad |-> 5, base_warn |-> 700, slope_warn |-> 4]]

SetMin(S) == CHOOSE x \in S : \A y \in S : x <= y

\* the metric of a category as the snapshot gives it, absent readings healthy
Metric(tag, d) ==
    IF tag = "RAM"
    THEN (IF d.ram.k = "dict" /\ Usable(d.ram.used_pct) THEN d.ram.used_pct.v ELSE 0)
    ELSE IF tag = "CPU"
    THEN (IF d.cpu.k = "dict" /\ Usable(d.cpu.cpu_pct) THEN d.cpu.cpu_pct.v ELSE 0)
    ELSE IF tag = "Startup"
    THEN (IF d.startup_items.k = "list" THEN d.startup_items.n * 10 ELSE 0)
    ELSE LET S == { d.disks.items[i].free_pct.v :
                      i \in { j \in 1..Len(d.disks.items) : Usable(d.disks.items[j].free_pct) } }
         IN  IF S = {} THEN 1000 ELSE SetMin(S)

Crosses(tag, x, cutoff) == IF tag = "Disk" THEN x <= cutoff ELSE x >= cutoff

Fires(tag, d, m) == Crosses(tag, Metric(tag, d), Cutoffs[m][tag].warn)

ExpectedTags(d, m) == SelectSeq(Categories, LAMBDA t : Fires(t, d, m))

Tags(breakdown) == [i \in 1..Len(breakdown) |-> breakdown[i].tag]

\* C7: the tags of the breakdown are the categories whose metric crosses the
\* warn cutoff of the mode, each once, in the order RAM, Disk, Startup, CPU.
C7_BreakdownOrder ==
    \A m \in Modes :
        Ok(score[m]) => Tags(score[m].breakdown) = ExpectedTags(data, m)

\* RAM, Disk and CPU fire, Startup does not
C7_Witness ==
    \E m \in Modes : /\ Ok(score[m])
                     /\ Tags(score[m].breakdown) = << "RAM", "Disk", "CPU" >>

\* the reference curve of a firing category, clamped to [0, 40]
RefPenalty(tag, x, m) ==
    LET c == Cutoffs[m][tag]
        k == Curve[tag]
    IN  Bounded(IF Crosses(tag, x, c.bad)
                THEN k.base_bad + Abs(x - c.bad) * k.slope_bad
                ELSE k.base_warn + Abs(x - c.warn) * k.slope_warn,
                0, 4000)

RECURSIVE SumRef(_, _, _)
SumRef(tags, d, m) ==
    IF Len(tags) = 0 THEN 0
    ELSE RefPenalty(tags[1], Metric(tags[1], d), m) + SumRef(Tail(tags), d, m)

\* only the given category is off its healthy reading
OnlyMetric(d, tag, x) ==
    \A t \in {"RAM", "Disk", "Startup", "CPU"} :
        Metric(t, d) = IF t = tag THEN x ELSE IF t = "Disk" THEN 1000 ELSE 0

\* C8: the penalty of every firing category is the reference curve clamped to
\* [0, 40] (the breakdown records it to one decimal, the score subtracts it);
\* ram_used_pct = 90 in general mode gives 28.0, score 72, Good, and a disk at
\* free_pct = 10 in gaming mode gives 33.0, score 67, Fair.
C8_PenaltyCurve ==
    \A m \in Modes :
        Ok(score[m]) =>
            LET bd == score[m].breakdown
                tags == ExpectedTags(data, m)
            IN  /\ Len(bd) = Len(tags)
                /\ \A i \in 1..Len(bd) :
                      bd[i].penalty =
                          RoundHalfEven(RefPenalty(tags[i], Metric(tags[i], data), m), 10)
                /\ score[m].score =
                      RoundHalfEven(Bounded(10000 - SumRef(tags, data, m), 0, 10000), 100)
                /\ (m = "general" /\ OnlyMetric(data, "RAM", 900)) =>
                      /\ bd = << [tag |-> "RAM", penalty |-> 280,
                                  reason |-> [text |-> "High RAM pressure", n |-> 90]] >>
                      /\ score[m].score = 72
                      /\ score[m].band = "Good"
                /\ (m = "gaming" /\ OnlyMetric(data, "Disk", 100)) =>
                      /\ Len(bd) = 1 /\ bd[1].tag = "Disk" /\ bd[1].penalty = 330
                      /\ score[m].score = 67
                      /\ score[m].band = "Fair"

\* the general-mode result for ram_used_pct = 90, everything else healthy
C8_Witness ==
    /\ OnlyMetric(data, "RAM", 900)
    /\ Ok(score["general"])
    /\ Len(score["general"].breakdown) = 1
    /\ score["general"].breakdown[1].penalty = 280

Rank(priority) == IF priority = "High" THEN 0 ELSE IF priority = "Medium" THEN 1 ELSE 2

IsDiskRec(r) == r.title \in {"Low free space on", "Free space getting tight on"}

\* place of a recommendation in the generation order: the disks in snapshot
\* order, then RAM, startup items, CPU, the gaming tip, the two baselines
GenKey(r, d) ==
    IF IsDiskRec(r)
    THEN CHOOSE i \in 1..Len(d.disks.items) : d.disks.items[i].mountpoint = r.mp
    ELSE IF r.title \in {"High RAM usage", "RAM pressure"} THEN 101
    ELSE IF r.title \in {"Many startup items", "Several startup items"} THEN 102
    ELSE IF r.title \in {"High CPU usage at scan time", "CPU moderately loaded"} THEN 103
    ELSE IF r.title = "Gaming mode checklist" THEN 104
    ELSE IF r.title = "Keep drivers and Windows updated" THEN 105
    ELSE 106

\* C9: the returned list is ordered High, Medium, Low, and entries of equal
\* priority keep the generation order.
C9_StablePriorityOrder ==
    \A m \in Modes :
        Ok(recommendations[m]) =>
            LET recs == recommendations[m].recs
            IN  \A i, j \in 1..Len(recs) :
                    i < j =>
                        /\ Rank(recs[i].priority) <= Rank(recs[j].priority)
                        /\ Rank(recs[i].priority) = Rank(recs[j].priority)
                              => GenKey(recs[i], data) < GenKey(recs[j], data)

\* a High RAM entry, generated after two Medium disk entries, sorted before them
C9_Witness ==
    \E m \in Modes :
        /\ Ok(recommendations[m])
        /\ LET recs == recommendations[m].recs
           IN  /\ Len(recs) >= 5
               /\ recs[1].title = "High RAM usage"
               /\ recs[2].title = "Free space getting tight on" /\ recs[2].mp = "C:"
               /\ recs[3].title = "Free space getting tight on" /\ recs[3].mp = "D:"

NoTrigger(d, m) == \A t \in {"RAM", "Disk", "Startup", "CPU"} : ~Fires(t, d, m)

Titles(recs) == [i \in 1..Len(recs) |-> recs[i].title]

\* C10: the list has at least 2 entries and holds the two Low baselines; with
\* no threshold triggered it is exactly the two baselines in general mode and
\* the gaming checklist followed by the two baselines in gaming mode.
C10_BaselineEntries ==
    \A m \in Modes :
        Ok(recommendations[m]) =>
            LET recs == recommendations[m].recs
            IN  /\ Len(recs) >= 2
                /\ \E i \in 1..Len(recs) :
                      recs[i].title = "Keep drivers and Windows updated"
                      /\ recs[i].priority = "Low"
                /\ \E i \in 1..Len(recs) :
                      recs[i].title = "Storage hygiene" /\ recs[i].priority = "Low"
                /\ NoTrigger(data, m) =>
                      Titles(recs) =
                          IF m = "general"
                          THEN << "Keep drivers and Windows updated", "Storage hygiene" >>
                          ELSE << "Gaming mode checklist",
                                  "Keep drivers and Windows updated", "Storage hygiene" >>

\* gaming mode, nothing triggered, three entries
C10_Witness ==
    /\ Ok(recommendations["gaming"])
    /\ NoTrigger(data, "gaming")
    /\ Len(recommendations["gaming"].recs) = 3

\* the disk entries of a breakdown
DiskEntries(breakdown) == SelectSeq(breakdown, LAMBDA e : e.tag = "Disk")

\* positions of the disks that report a free_pct
Reporting(d) ==
    { i \in 1..Len(d.disks.items) : Usable(d.disks.items[i].free_pct) }

\* positions of the disks whose free_pct is below the warn cutoff of the mode
BelowWarn(d, m) ==
    { i \in Reporting(d) : d.disks.items[i].free_pct.v < Cutoffs[m]["Disk"].warn }

\* C11: with k >= 1 disks below the warn cutoff of the mode the list holds
\* exactly k disk recommendations, one per such disk and naming its mount
\* point (none for a disk without free_pct), while the breakdown holds exactly
\* one Disk entry, its penalty computed from the minimum free_pct of the
\* reporting disks; with no reporting disk the minimum is 100 and there is no
\* Disk entry.
C11_DiskPerDiskVsWorst ==
    \A m \in Modes :
        /\ (Ok(recommendations[m]) /\ BelowWarn(data, m) # {}) =>
              LET recs == SelectSeq(recommendations[m].recs, IsDiskRec)
              IN  /\ Len(recs) = Cardinality(BelowWarn(data, m))
                  /\ \A i \in BelowWarn(data, m) :
                        Cardinality({ j \in 1..Len(recs) :
                                        recs[j].mp = data.disks.items[i].mountpoint }) = 1
        /\ (Ok(score[m]) /\ BelowWarn(data, m) # {}) =>
              LET entries == DiskEntries(score[m].breakdown)
                  worst == SetMin({ data.disks.items[i].free_pct.v : i \in Reporting(data) })
              IN  /\ Len(entries) = 1
                  /\ score[m].inputs.disk_free_pct_min = worst
                  /\ entries[1].penalty = RoundHalfEven(RefPenalty("Disk", worst, m), 10)
        /\ (Ok(score[m]) /\ Reporting(data) = {}) =>
              /\ score[m].inputs.disk_free_pct_min = 1000
              /\ DiskEntries(score[m].breakdown) = << >>

\* two disks below the warn cutoff with different readings: two disk
\* recommendations, one Disk entry
C11_Witness ==
    \E m \in Modes :
        /\ Ok(recommendations[m]) /\ Ok(score[m])
        /\ Cardinality(BelowWarn(data, m)) = 2
        /\ data.disks.items[1].free_pct.v > data.disks.items[2].free_pct.v
        /\ Len(SelectSeq(recommendations[m].recs, IsDiskRec)) = 2
        /\ Len(DiskEntries(score[m].breakdown)) = 1

\* the titles of the recommendations of each category, by level
RecTitles ==
    [RAM |-> [bad |-> "High RAM usage", warn |-> "RAM pressure"],
     Disk |-> [bad |-> "Low free space on", warn |-> "Free space getting tight on"],
     Startup |-> [bad |-> "Many startup items", warn |-> "Several startup items"],
     CPU |-> [bad |-> "High CPU usage at scan time", warn |-> "CPU moderately loaded"]]

\* the reasons the scorer gives on the bad branch of each category
BadReasons ==
    [RAM |-> "High RAM pressure", Disk |-> "Very low free disk space",
     Startup |-> "Too many startup items", CPU |-> "High CPU load at scan time"]

\* C12: the recommendations use the cutoffs of the scorer: for each category
\* the list holds a warning for it exactly when the breakdown holds an entry
\* for it, also with the metric exactly on a cutoff, and holds the bad-level
\* one exactly when the scorer took the bad branch.
C12_SameCutoffs ==
    \A m \in Modes :
        (Ok(score[m]) /\ Ok(recommendations[m])) =>
            \A t \in {"RAM", "Disk", "Startup", "CPU"} :
                LET recs == recommendations[m].recs
                    bd == score[m].breakdown
                    warned == \E i \in 1..Len(recs) :
                                  recs[i].title \in {RecTitles[t].bad, RecTitles[t].warn}
                    warned_bad == \E i \in 1..Len(recs) : recs[i].title = RecTitles[t].bad
                    scored == \E i \in 1..Len(bd) : bd[i].tag = t
                    scored_bad == \E i \in 1..Len(bd) :
                                      bd[i].tag = t /\ bd[i].reason.text = BadReasons[t]
                IN  /\ warned <=> scored
                    /\ warned_bad <=> scored_bad

\* the same agreement with every disk reading off the two disk cutoffs
OffCutoffAgreement ==
    \A m \in Modes :
        (/\ Ok(score[m]) /\ Ok(recommendations[m])
         /\ \A i \in Reporting(data) :
               data.disks.items[i].free_pct.v
                   \notin {Cutoffs[m]["Disk"].warn, Cutoffs[m]["Disk"].bad}) =>
            \A t \in {"RAM", "Disk", "Startup", "CPU"} :
                LET recs == recommendations[m].recs
                    bd == score[m].breakdown
                IN  /\ (\E i \in 1..Len(recs) :
                          recs[i].title \in {RecTitles[t].bad, RecTitles[t].warn})
                       <=> (\E i \in 1..Len(bd) : bd[i].tag = t)
                    /\ (\E i \in 1..Len(recs) : recs[i].title = RecTitles[t].bad)
                       <=> (\E i \in 1..Len(bd) :
                              bd[i].tag = t /\ bd[i].reason.text = BadReasons[t])

\* cpu_pct = 0, used_pct = 0, every disk at free_pct = 100, no startup items
AllHealthy(d) ==
    /\ d.cpu = CpuDict(Num(0))
    /\ d.ram = RamDict(Num(0))
    /\ d.disks.k = "list"
    /\ \A i \in 1..Len(d.disks.items) : d.disks.items[i].free_pct = Num(1000)
    /\ d.startup_items = StartupList(0)

\* C13: the all-healthy snapshot scores 100, band Excellent, with an empty
\* breakdown, in general and in gaming mode.
C13_AllHealthy ==
    \A m \in Modes :
        (AllHealthy(data) /\ score[m] # NotRun) =>
            /\ Ok(score[m])
            /\ score[m].score = 100
            /\ score[m].band = "Excellent"
            /\ score[m].breakdown = << >>

\* an all-healthy snapshot with two disks, scored in both modes
C13_Witness ==
    /\ AllHealthy(data)
    /\ Len(data.disks.items) = 2
    /\ \A m \in Modes : Ok(score[m]) /\ score[m].score = 100

SetMax(S) == CHOOSE x \in S : \A y \in S : x >= y

\* the next reading above x among those of S, if there is one
NextUp(x, S) == IF \E y \in S : y > x THEN { SetMin({ y \in S : y > x }) } ELSE {}

\* the next reading below x among those of S, if there is one
NextDown(x, S) == IF \E y \in S : y < x THEN { SetMax({ y \in S : y < x }) } ELSE {}

\* the snapshots that differ from d in one metric, moved one reading towards
\* the unhealthy side: RAM, CPU or the startup count raised, or the free_pct
\* of the only disk lowered
Worse(d) ==
    { [d EXCEPT !.ram = RamDict(Num(y))] :
        y \in NextUp(d.ram.used_pct.v, RamVals \cup RamSweep) }
    \cup { [d EXCEPT !.cpu = CpuDict(Num(y))] :
              y \in NextUp(d.cpu.cpu_pct.v, CpuVals \cup CpuSweep) }
    \cup { [d EXCEPT !.startup_items = StartupList(n)] :
              n \in NextUp(d.startup_items.n, StartupVals \cup StartupSweep) }
    \cup (IF Len(d.disks.items) = 1
          THEN { [d EXCEPT !.disks.items[1].free_pct = Num(y)] :
                   y \in NextDown(d.disks.items[1].free_pct.v, DiskVals \cup DiskSweep) }
          ELSE {})

\* C15: the score is monotone in each metric: with the other metrics fixed,
\* raising ram_used_pct, cpu_pct or the startup count, or lowering the minimum
\* disk free_pct, never raises the score in either mode, and no listed penalty
\* drops, in particular not where the metric passes from the warn branch to
\* the bad branch at the bad cutoff.
C15_Monotone ==
    \A m \in Modes :
        Ok(score[m]) =>
            \A d2 \in Worse(data) :
                LET r1 == score[m]
                    r2 == score_system(d2, m)
                IN  /\ Ok(r2)
                    /\ r2.score <= r1.score
                    /\ \A i \in 1..Len(r1.breakdown) :
                          \E j \in 1..Len(r2.breakdown) :
                              /\ r2.breakdown[j].tag = r1.breakdown[i].tag
                              /\ r2.breakdown[j].penalty >= r1.breakdown[i].penalty

\* cpu_pct = 84.9 scored in general mode on the warn branch, its next reading
\* 85.0 on the bad branch with a lower score
C15_Witness ==
    /\ Ok(score["general"])
    /\ data.cpu.cpu_pct.v = 849
    /\ \E i \in 1..Len(score["general"].breakdown) :
          score["general"].breakdown[i].reason.text = "CPU moderately loaded"
    /\ \E d2 \in Worse(data) :
          /\ d2.cpu.cpu_pct.v = 850
          /\ score_system(d2, "general").score < score["general"].score

\* the worker threads in flight: started, and their result or error callback
\* not yet queued (a thread past self.after only leaves the except block)
InFlight == { t \in 1..MaxThreads : threads[t].pc \in {"run_scan", "assign", "after", "except"} }

\* an export is running: export_report is in the folder dialog, about to
\* write self.data
Exporting == \E i \in 1..Len(dialogs) : dialogs[i] = "askdirectory"

\* C16: at most one scan worker is in flight at any time, Run Scan stays
\* disabled from the click until the result or error callback has run, and
\* Export is enabled only with no scan in flight and the most recent scan
\* completed, so an export never runs while a worker may assign self.data and
\* never with self.data unset.
C16_OneScanGuardedExport ==
    /\ Cardinality(InFlight) <= 1
    /\ (InFlight # {} \/ callbacks # << >>) => btn_scan = "disabled"
    /\ btn_export = "normal" =>
          /\ InFlight = {}
          /\ callbacks = << >>
          /\ status = "Scan complete."
          /\ self_data # NoData
          /\ self_data = shown
    /\ Exporting => (InFlight = {} /\ self_data # NoData)
    /\ \A i \in 1..Len(dialogs) : dialogs[i] # "showinfo_run_scan_first"

\* a second scan about to assign self.data, the first result still in
\* self.data, both buttons disabled
C16_Witness ==
    /\ \E t \in InFlight : threads[t].pc = "assign"
    /\ self_data # NoData
    /\ btn_scan = "disabled"
    /\ btn_export = "disabled"

====
